---------------------------- MODULE Spec2Model ----------------------------
(***************************************************************************)
(* The site configuration module (src/config.ts) of the blog, and the      *)
(* build-time consumers that read it.                                      *)
(*                                                                         *)
(* config.ts exports three bindings, NAV_ITEMS, SITE and PAGE_SIZE.  They  *)
(* are plain JavaScript values: the binding is const, the objects behind   *)
(* it are ordinary (unfrozen) objects.  The model keeps them as state      *)
(* (navItems, site, pageSize), initialised by the module's evaluation, so  *)
(* that "nobody changes them" is a property of the steps and not of the    *)
(* notation.                                                               *)
(*                                                                         *)
(* Values are tagged with their JavaScript type, objects keep their        *)
(* properties in insertion order, and strings are sequences of one-        *)
(* character strings, so that a prefix, a character class or a serialised  *)
(* form can be computed.                                                   *)
(***************************************************************************)
EXTENDS Naturals, Sequences, FiniteSets

VARIABLES
    navItems,   \* the object bound to NAV_ITEMS
    site,       \* the object bound to SITE
    pageSize,   \* the number bound to PAGE_SIZE
    menu,       \* the links the menu renderer has emitted so far
    meta,       \* <<the metadata of the page being rendered>>, or <<>> before any
    listing,    \* <<the post listing being paginated>>, or <<>> before it is built
    pages,      \* the pages cut from the listing so far
    wire,       \* <<the serialised configuration in flight>>, or <<>>
    restored,   \* the structures deserialised so far, one per round trip
    views,      \* consumer -> export name -> <<the value it last read>>, or <<>>
    content,    \* the content files handed to the build, each a sequence of lines
    built,      \* file index -> <<what the build made of that file>>, or <<>>
    buildErrors,\* the errors the build has reported
    index,      \* <<the files listed on the blog index>>, or <<>> before it is made
    svc,        \* the run of minikubestart.sh under the minikubestart service
    oai,        \* openaicall.py: openai_responses.json and what the calls returned
    inst        \* the two install scripts run side by side on the same input

vars ==
    <<navItems, site, pageSize, menu, meta, listing, pages, wire, restored,
      views, content, built, buildErrors, index, svc, oai, inst>>

cfgVars == <<navItems, site, pageSize>>

contentVars == <<content, built, buildErrors, index>>

\* the programs the posts publish: none of the site's consumers touches them
postVars == <<svc, oai, inst>>

---------------------------------------------------------------------------
(* Bounds of the model.                                                    *)

\* the largest post listing handed to pagination
MaxPosts == 17

\* how many serialise/deserialise round trips are followed
MaxRoundTrips == 2

\* how many consumers read the module side by side
NumConsumers == 2

\* the longest corpus of made-up content files handed to the build
MaxFiles == 3

---------------------------------------------------------------------------
(* JavaScript values.                                                      *)

Str(s) == [t |-> "string", v |-> s]

Bool(b) == [t |-> "boolean", v |-> b]

Num(n) == [t |-> "number", v |-> n]

Obj(fields) == [t |-> "object", v |-> fields]

\* the value of a property written as `key: undefined`
Undefined == [t |-> "undefined", v |-> <<>>]

\* one property of an object literal
Field(key, value) == [k |-> key, v |-> value]

\* the keys of an object, in property order (Object.keys)
Keys(o) == [i \in 1..Len(o.v) |-> o.v[i].k]

HasKey(o, key) == \E i \in 1..Len(o.v) : o.v[i].k = key

\* o[key]: the value of the last property written under that key
Get(o, key) ==
    LET idx == {i \in 1..Len(o.v) : o.v[i].k = key}
        last == CHOOSE i \in idx : \A j \in idx : j <= i
    IN  IF idx = {} THEN Undefined ELSE o.v[last].v

\* obj[key] = value: an existing property keeps its place
SetProp(fields, key, value) ==
    IF \E i \in 1..Len(fields) : fields[i].k = key
    THEN [i \in 1..Len(fields) |->
             IF fields[i].k = key THEN Field(key, value) ELSE fields[i]]
    ELSE Append(fields, Field(key, value))

---------------------------------------------------------------------------
(* Property names of config.ts.                                            *)

K_home == <<"h","o","m","e">>

K_blog == <<"b","l","o","g">>

K_tags == <<"t","a","g","s">>

K_about == <<"a","b","o","u","t">>

K_path == <<"p","a","t","h">>

K_title == <<"t","i","t","l","e">>

K_name == <<"n","a","m","e">>

K_description == <<"d","e","s","c","r","i","p","t","i","o","n">>

K_url == <<"u","r","l">>

K_githubUrl == <<"g","i","t","h","u","b","U","r","l">>

K_listDrafts == <<"l","i","s","t","D","r","a","f","t","s">>

\* the names of the three exports
K_NAV_ITEMS == <<"N","A","V","_","I","T","E","M","S">>

K_SITE == <<"S","I","T","E">>

K_PAGE_SIZE == <<"P","A","G","E","_","S","I","Z","E">>

---------------------------------------------------------------------------
(* The exported values, as written in config.ts.                           *)

\* key: { path: '...', title: '...' }
NavEntry(key, path, title) ==
    Field(key, Obj(<<Field(K_path, Str(path)), Field(K_title, Str(title))>>))

\* blog: { path: 'blog', ... }: the leading slash of a route forgotten
NAV_ITEMS_RelativePath ==
    Obj(<<NavEntry(K_home,  <<"/">>,                     <<"h","o","m","e">>),
          NavEntry(K_blog,  <<"b","l","o","g">>,         <<"b","l","o","g">>),
          NavEntry(K_tags,  <<"/","t","a","g","s">>,     <<"t","a","g","s">>),
          NavEntry(K_about, <<"/","a","b","o","u","t">>, <<"a","b","o","u","t">>)>>)

\* the about entry left out
NAV_ITEMS_NoAbout ==
    Obj(<<NavEntry(K_home,  <<"/">>,                     <<"h","o","m","e">>),
          NavEntry(K_blog,  <<"/","b","l","o","g">>,     <<"b","l","o","g">>),
          NavEntry(K_tags,  <<"/","t","a","g","s">>,     <<"t","a","g","s">>)>>)

\* tags written before blog
NAV_ITEMS_Reordered ==
    Obj(<<NavEntry(K_home,  <<"/">>,                     <<"h","o","m","e">>),
          NavEntry(K_tags,  <<"/","t","a","g","s">>,     <<"t","a","g","s">>),
          NavEntry(K_blog,  <<"/","b","l","o","g">>,     <<"b","l","o","g">>),
          NavEntry(K_about, <<"/","a","b","o","u","t">>, <<"a","b","o","u","t">>)>>)

\* title: 'Home': a capitalised display label
NAV_ITEMS_Capitalised ==
    Obj(<<NavEntry(K_home,  <<"/">>,                     <<"H","o","m","e">>),
          NavEntry(K_blog,  <<"/","b","l","o","g">>,     <<"b","l","o","g">>),
          NavEntry(K_tags,  <<"/","t","a","g","s">>,     <<"t","a","g","s">>),
          NavEntry(K_about, <<"/","a","b","o","u","t">>, <<"a","b","o","u","t">>)>>)

\* tags: { path: '/blog', ... }: two keys sent to the same route
NAV_ITEMS_SharedPath ==
    Obj(<<NavEntry(K_home,  <<"/">>,                     <<"h","o","m","e">>),
          NavEntry(K_blog,  <<"/","b","l","o","g">>,     <<"b","l","o","g">>),
          NavEntry(K_tags,  <<"/","b","l","o","g">>,     <<"t","a","g","s">>),
          NavEntry(K_about, <<"/","a","b","o","u","t">>, <<"a","b","o","u","t">>)>>)

\* about: { path: '/about-me', ... }: a route that is not the key
NAV_ITEMS_OtherRoute ==
    Obj(<<NavEntry(K_home,  <<"/">>,                     <<"h","o","m","e">>),
          NavEntry(K_blog,  <<"/","b","l","o","g">>,     <<"b","l","o","g">>),
          NavEntry(K_tags,  <<"/","t","a","g","s">>,     <<"t","a","g","s">>),
          NavEntry(K_about, <<"/","a","b","o","u","t","-","m","e">>,
                                                         <<"a","b","o","u","t">>)>>)

NAV_ITEMS ==
    Obj(<<NavEntry(K_home,  <<"/">>,                     <<"h","o","m","e">>),
          NavEntry(K_blog,  <<"/","b","l","o","g">>,     <<"b","l","o","g">>),
          NavEntry(K_tags,  <<"/","t","a","g","s">>,     <<"t","a","g","s">>),
          NavEntry(K_about, <<"/","a","b","o","u","t">>, <<"a","b","o","u","t">>)>>)

\* 'Art Fewell\'s Blog'
SiteName ==
    <<"A","r","t"," ","F","e","w","e","l","l","'","s"," ","B","l","o","g">>

\* 'This site provides words, sentences, and paragraphs - all at no extra charge'
SiteDescription ==
    <<"T","h","i","s"," ","s","i","t","e"," ","p","r","o","v","i","d",
      "e","s"," ","w","o","r","d","s",","," ","s","e","n","t","e","n",
      "c","e","s",","," ","a","n","d"," ","p","a","r","a","g","r","a",
      "p","h","s"," ","-"," ","a","l","l"," ","a","t"," ","n","o"," ",
      "e","x","t","r","a"," ","c","h","a","r","g","e">>

\* 'https://artfewell.com'
SiteUrl ==
    <<"h","t","t","p","s",":","/","/",
      "a","r","t","f","e","w","e","l","l",".","c","o","m">>

\* 'https://github.com/afewell'
SiteGithubUrl ==
    <<"h","t","t","p","s",":","/","/",
      "g","i","t","h","u","b",".","c","o","m","/","a","f","e","w","e","l","l">>

\* { name, title, description, url, githubUrl, listDrafts }
SiteOf(url, githubUrl, listDrafts) ==
    Obj(<<Field(K_name,        Str(SiteName)),
          Field(K_title,       Str(SiteName)),
          Field(K_description, Str(SiteDescription)),
          Field(K_url,         url),
          Field(K_githubUrl,   githubUrl),
          Field(K_listDrafts,  listDrafts)>>)

\* url: 'artfewell.com': the scheme forgotten
SITE_BareHost ==
    SiteOf(Str(<<"a","r","t","f","e","w","e","l","l",".","c","o","m">>),
           Str(SiteGithubUrl), Bool(TRUE))

\* listDrafts: 'true': the flag written as a string
SITE_StringFlag ==
    SiteOf(Str(SiteUrl), Str(SiteGithubUrl), Str(<<"t","r","u","e">>))

\* the description property left out (config.ts ends SITE with `// description ?`)
SITE_NoDescription ==
    Obj(<<Field(K_name,        Str(SiteName)),
          Field(K_title,       Str(SiteName)),
          Field(K_url,         Str(SiteUrl)),
          Field(K_githubUrl,   Str(SiteGithubUrl)),
          Field(K_listDrafts,  Bool(TRUE))>>)

\* listDrafts: undefined: the flag left unset
SITE_UndefinedFlag ==
    SiteOf(Str(SiteUrl), Str(SiteGithubUrl), Undefined)

\* url: 'https://artfewell.com/': a slash left at the end
SITE_TrailingSlash ==
    SiteOf(Str(SiteUrl \o <<"/">>), Str(SiteGithubUrl), Bool(TRUE))

\* listDrafts: false: drafts switched off
SITE_DraftsOff ==
    SiteOf(Str(SiteUrl), Str(SiteGithubUrl), Bool(FALSE))

SITE ==
    SiteOf(Str(SiteUrl), Str(SiteGithubUrl), Bool(TRUE))

PAGE_SIZE_Zero == (0)

PAGE_SIZE == 8

---------------------------------------------------------------------------
(* The programs the posts publish, before any of them is run.              *)

\* minikubestart.service not started
SvcOff ==
    [pc |-> "off", minikube_running |-> "", log |-> {}, api |-> FALSE,
     bootApi |-> FALSE, starts |-> 0,
     script |-> [assign |-> [w |-> "lit", s |-> ""], test |-> [w |-> "lit", s |-> ""]]]

\* openaicall.py imported, call_openai_api not yet called, no JSON file
OaiIdle ==
    [file |-> <<>>, returned |-> <<>>, last |-> <<>>, calls |-> 0,
     apiFailed |-> FALSE, saveFault |-> "none", escaped |-> FALSE, errors |-> 0]

\* neither install script started
InstOff ==
    [pc |-> "off", flag |-> FALSE, answers |-> <<>>, postactions |-> FALSE,
     at |-> 0, install |-> "", original |-> <<>>, refactored |-> <<>>]

---------------------------------------------------------------------------
(* The state once config.ts has been evaluated: the three bindings hold    *)
(* their literals and no consumer has run yet.                             *)

Init ==
    /\ navItems = NAV_ITEMS
    /\ site = SITE
    /\ pageSize = PAGE_SIZE
    /\ menu = <<>>
    /\ meta = <<>>
    /\ listing = <<>>
    /\ pages = <<>>
    /\ wire = <<>>
    /\ restored = <<>>
    /\ views = [c \in 1..NumConsumers |-> [e \in 1..3 |-> <<>>]]
    /\ content = <<>>
    /\ built = <<>>
    /\ buildErrors = <<>>
    /\ index = <<>>
    /\ svc = SvcOff
    /\ oai = OaiIdle
    /\ inst = InstOff

---------------------------------------------------------------------------
(* The menu renderer: one link per entry of NAV_ITEMS, in property order.  *)

\* the link rendered for the i-th entry
LinkOf(i) ==
    LET entry == navItems.v[i].v
    IN  [label  |-> Get(entry, K_title).v,
         target |-> Get(entry, K_path).v]

RenderMenuLink ==
    /\ Len(menu) < Len(navItems.v)
    /\ menu' = Append(menu, LinkOf(Len(menu) + 1))
    /\ UNCHANGED <<cfgVars, meta, listing, pages, wire, restored,
                 views, contentVars, postVars>>

MenuDone == Len(menu) = Len(navItems.v)

---------------------------------------------------------------------------
(* Page metadata: the renderer takes up the page behind the i-th           *)
(* navigation entry and fills its title tag, description and canonical     *)
(* link from SITE.                                                         *)

PageMeta(i) ==
    [page        |-> i,
     title       |-> Get(site, K_title).v,
     description |-> Get(site, K_description).v,
     canonical   |-> Get(site, K_url).v \o Get(navItems.v[i].v, K_path).v]

\* title: SITE.title = page + ' | ' + SITE.title: the shared record written to
PopulateMeta_WritesSite(i) ==
    /\ IF meta = <<>> THEN TRUE ELSE meta[1].page # i
    /\ meta' = <<PageMeta(i)>>
    /\ site' = [site EXCEPT !.v = SetProp(site.v, K_title,
                     Str(Get(navItems.v[i].v, K_title).v \o Get(site, K_title).v))]
    /\ UNCHANGED <<navItems, pageSize, menu, listing, pages, wire, restored,
                 views, contentVars, postVars>>

PopulateMeta(i) ==
    /\ IF meta = <<>> THEN TRUE ELSE meta[1].page # i
    /\ meta' = <<PageMeta(i)>>
    /\ UNCHANGED <<cfgVars, menu, listing, pages, wire, restored,
                 views, contentVars, postVars>>

---------------------------------------------------------------------------
(* Listing and pagination: the posts of a listing are named by their rank; *)
(* each page takes the next PAGE_SIZE of them, the last one what is left.  *)

Min(a, b) == IF a <= b THEN a ELSE b

\* the concatenation of the sequences ss[lo], ..., ss[hi], halving the range
RECURSIVE FlattenRange(_, _, _)
FlattenRange(ss, lo, hi) ==
    IF lo > hi THEN <<>>
    ELSE IF lo = hi THEN ss[lo]
    ELSE LET mid == (lo + hi) \div 2
         IN  FlattenRange(ss, lo, mid) \o FlattenRange(ss, mid + 1, hi)

Flatten(ss) == FlattenRange(ss, 1, Len(ss))

\* how many posts the pages cut so far hold
Paged == Len(Flatten(pages))

BuildListing(n) ==
    /\ listing = <<>>
    /\ listing' = <<[j \in 1..n |-> j]>>
    /\ UNCHANGED <<cfgVars, menu, meta, pages, wire, restored,
                 views, contentVars, postVars>>

\* the page's end taken as inclusive: one post too many on the page
PaginateStep_EndInclusive ==
    /\ listing # <<>>
    /\ Paged < Len(listing[1])
    /\ pages' = Append(pages,
                       SubSeq(listing[1], Paged + 1,
                              Min(Paged + pageSize + 1, Len(listing[1]))))
    /\ UNCHANGED <<cfgVars, menu, meta, listing, wire, restored,
                 views, contentVars, postVars>>

PaginateStep ==
    /\ listing # <<>>
    /\ Paged < Len(listing[1])
    /\ pages' = Append(pages,
                       SubSeq(listing[1], Paged + 1,
                              Min(Paged + pageSize, Len(listing[1]))))
    /\ UNCHANGED <<cfgVars, menu, meta, listing, wire, restored,
                 views, contentVars, postVars>>

PaginationDone == listing # <<>> /\ Paged = Len(listing[1])

---------------------------------------------------------------------------
(* Serialisation of the configuration object, as JSON.stringify writes it  *)
(* (no indentation) and JSON.parse reads it back.  The value universe is   *)
(* the one config.ts uses: strings, booleans, natural numbers and plain    *)
(* objects; null, arrays, whitespace and \u escapes never occur in it.     *)

DigitChars == <<"0","1","2","3","4","5","6","7","8","9">>

IsDigit(c) == \E d \in 1..10 : DigitChars[d] = c

DigitVal(c) == (CHOOSE d \in 1..10 : DigitChars[d] = c) - 1

RECURSIVE NatToChars(_)
NatToChars(n) ==
    IF n < 10 THEN <<DigitChars[n + 1]>>
    ELSE NatToChars(n \div 10) \o <<DigitChars[(n % 10) + 1]>>

\* a character as it stands inside a string literal
EscapeChar(c) == IF c \in {"\"", "\\"} THEN <<"\\", c>> ELSE <<c>>

\* the characters of a string with the quote and the backslash escaped
Escape(s) == Flatten([i \in 1..Len(s) |-> EscapeChar(s[i])])

Quote(s) == <<"\"">> \o Escape(s) \o <<"\"">>

RECURSIVE JSONStringify(_)
RECURSIVE StringifyMembers(_, _)
\* the members of an object, comma separated; a property whose value is
\* undefined is left out
StringifyMembers(fields, first) ==
    IF fields = <<>> THEN <<>>
    ELSE IF Head(fields).v.t = "undefined"
         THEN StringifyMembers(Tail(fields), first)
         ELSE (IF first THEN <<>> ELSE <<",">>)
              \o Quote(Head(fields).k) \o <<":">> \o JSONStringify(Head(fields).v)
              \o StringifyMembers(Tail(fields), FALSE)

JSONStringify(val) ==
    CASE val.t = "string"  -> Quote(val.v)
      [] val.t = "boolean" -> IF val.v THEN <<"t","r","u","e">>
                                       ELSE <<"f","a","l","s","e">>
      [] val.t = "number"  -> NatToChars(val.v)
      [] val.t = "object"  -> <<"{">> \o StringifyMembers(val.v, TRUE) \o <<"}">>

\* what JSON.parse throws on malformed text
SyntaxError == [t |-> "SyntaxError", v |-> <<>>]

Parsed(val, next) == [ok |-> TRUE, val |-> val, next |-> next]

Failed(next) == [ok |-> FALSE, val |-> SyntaxError, next |-> next]

\* whether the characters of lit stand in s from position i on
StartsAt(s, i, lit) ==
    /\ i + Len(lit) - 1 <= Len(s)
    /\ \A j \in 1..Len(lit) : s[i + j - 1] = lit[j]

\* how many backslashes in a row stand in s[lo..j-1] right before s[j]
RECURSIVE RunBefore(_, _, _)
RunBefore(s, lo, j) ==
    IF j > lo /\ s[j - 1] = "\\" THEN 1 + RunBefore(s, lo, j - 1) ELSE 0

\* whether s[k] is a backslash that escapes the character after it
IsEscaper(s, k) == s[k] = "\\" /\ RunBefore(s, 1, k) % 2 = 0

\* the position of the quote closing the literal whose first character is
\* s[i], or 0 when the literal is not closed
ClosingQuote(s, i) ==
    LET qs == {j \in i..Len(s) : s[j] = "\"" /\ RunBefore(s, i, j) % 2 = 0}
    IN  IF qs = {} THEN 0 ELSE CHOOSE j \in qs : \A m \in qs : j <= m

\* only the quote and the backslash are escaped
WellEscaped(body) ==
    \A k \in 1..Len(body) :
        IsEscaper(body, k) => k < Len(body) /\ body[k + 1] \in {"\"", "\\"}

Unescape(body) ==
    Flatten([k \in 1..Len(body) |->
                IF IsEscaper(body, k) THEN <<>> ELSE <<body[k]>>])

\* the characters of a string literal whose opening quote precedes s[i]
ParseChars(s, i) ==
    LET close == ClosingQuote(s, i)
        body  == SubSeq(s, i, close - 1)
    IN  IF close = 0 \/ ~WellEscaped(body) THEN Failed(i)
        ELSE Parsed(Unescape(body), close + 1)

RECURSIVE ParseDigits(_, _, _)
ParseDigits(s, i, acc) ==
    IF i <= Len(s) /\ IsDigit(s[i])
    THEN ParseDigits(s, i + 1, acc * 10 + DigitVal(s[i]))
    ELSE Parsed(Num(acc), i)

RECURSIVE ParseValue(_, _)
RECURSIVE ParseMembers(_, _, _)
\* "key":value pairs up to the closing brace; s[i] starts a key
ParseMembers(s, i, fields) ==
    IF i > Len(s) \/ s[i] # "\"" THEN Failed(i)
    ELSE LET key == ParseChars(s, i + 1)
         IN  IF ~key.ok \/ key.next > Len(s) \/ s[key.next] # ":"
             THEN Failed(key.next)
             ELSE LET value == ParseValue(s, key.next + 1)
                      fs    == SetProp(fields, key.val, value.val)
                  IN  IF ~value.ok \/ value.next > Len(s) THEN Failed(value.next)
                      ELSE IF s[value.next] = ","
                           THEN ParseMembers(s, value.next + 1, fs)
                      ELSE IF s[value.next] = "}"
                           THEN Parsed(Obj(fs), value.next + 1)
                      ELSE Failed(value.next)

ParseValue(s, i) ==
    IF i > Len(s) THEN Failed(i)
    ELSE IF s[i] = "\""
         THEN LET str == ParseChars(s, i + 1)
              IN  IF str.ok THEN Parsed(Str(str.val), str.next) ELSE str
    ELSE IF s[i] = "{"
         THEN IF i + 1 <= Len(s) /\ s[i + 1] = "}"
              THEN Parsed(Obj(<<>>), i + 2)
              ELSE ParseMembers(s, i + 1, <<>>)
    ELSE IF IsDigit(s[i]) THEN ParseDigits(s, i, 0)
    ELSE IF StartsAt(s, i, <<"t","r","u","e">>) THEN Parsed(Bool(TRUE), i + 4)
    ELSE IF StartsAt(s, i, <<"f","a","l","s","e">>) THEN Parsed(Bool(FALSE), i + 5)
    ELSE Failed(i)

JSONParse(s) ==
    LET r == ParseValue(s, 1)
    IN  IF r.ok /\ r.next = Len(s) + 1 THEN r.val ELSE SyntaxError

\* { NAV_ITEMS, SITE, PAGE_SIZE }: the configuration as one object
ConfigObject ==
    Obj(<<Field(K_NAV_ITEMS, navItems),
          Field(K_SITE,      site),
          Field(K_PAGE_SIZE, Num(pageSize))>>)

\* the structure the next round trip starts from
Current == IF restored = <<>> THEN ConfigObject ELSE restored[Len(restored)]

SerializeConfig ==
    /\ wire = <<>>
    /\ Len(restored) < MaxRoundTrips
    /\ Current.t = "object"
    /\ wire' = <<JSONStringify(Current)>>
    /\ UNCHANGED <<cfgVars, menu, meta, listing, pages, restored,
                 views, contentVars, postVars>>

DeserializeConfig ==
    /\ wire # <<>>
    /\ restored' = Append(restored, JSONParse(wire[1]))
    /\ wire' = <<>>
    /\ UNCHANGED <<cfgVars, menu, meta, listing, pages,
                 views, contentVars, postVars>>

---------------------------------------------------------------------------
(* Consumers reading the module side by side: each keeps the value it last *)
(* read of each export (1: NAV_ITEMS, 2: SITE, 3: PAGE_SIZE).              *)

\* the value the e-th export holds now
ExportValue(e) == ConfigObject.v[e].v

ReadExport(c, e) ==
    /\ views' = [views EXCEPT ![c][e] = <<ExportValue(e)>>]
    /\ UNCHANGED <<cfgVars, menu, meta, listing, pages, wire, restored,
                 contentVars, postVars>>

NextReaders ==
    \/ \E c \in 1..NumConsumers, e \in 1..3 : ReadExport(c, e)
    \/ \E i \in 1..Len(navItems.v) : PopulateMeta(i)

SpecReaders == Init /\ [][NextReaders]_vars

---------------------------------------------------------------------------
(* Content files.  A file is the sequence of its lines, each classed by    *)
(* its shape: a fence (---), a key (name: value), a list item (  - value), *)
(* a comment (# ...), or a run of n body lines holding no fence.  ln is    *)
(* the line's number in the file.  Scalar values are held as YAML reads    *)
(* them (surrounding double quotes dropped); a date is held character by   *)
(* character.                                                              *)

Fence(ln) == [k |-> "fence", ln |-> ln, n |-> 1, name |-> "", val |-> ""]

Key(ln, name, val) == [k |-> "key", ln |-> ln, n |-> 1, name |-> name, val |-> val]

DateKey(ln, chars) == [k |-> "key", ln |-> ln, n |-> 1, name |-> "date", val |-> chars]

Item(ln, val) == [k |-> "item", ln |-> ln, n |-> 1, name |-> "", val |-> val]

Comment(ln) == [k |-> "comment", ln |-> ln, n |-> 1, name |-> "", val |-> ""]

Text(ln, n) == [k |-> "text", ln |-> ln, n |-> n, name |-> "", val |-> ""]

\* src/src/pages/blog/MinikubeStartService.md (419 lines)
File_MinikubeStartService ==
    <<Fence(1),
      Key(2, "layout", "$/layouts/post.astro"),
      Key(3, "title", "Creating a simple systemd service to auto-start minikube"),
      Key(4, "description", "Check out this post to see how to setup a systemd service to automatically start minikube."),
      Comment(5),
      Key(6, "tags", ""),
      Item(7, "Intro"),
      Item(8, "Minikube"),
      Item(9, "Systemd"),
      Item(10, "Ubuntu"),
      Item(11, "Bash"),
      Item(12, "Platform Engineering"),
      Item(13, "Kubernetes"),
      Item(14, "OvaTheTap"),
      Item(15, "Tanzu Application Platform"),
      Key(16, "author", "Art Fewell"),
      Key(17, "authorTwitter", "afewell"),
      DateKey(18, <<"2","0","2","3","-","0","1","-","0","9","T","0","8",":","0","0",":","1","8",".","2","7","6","Z">>),
      Fence(19),
      Text(20, 107),
      Fence(127),
      Key(128, "layout", "$/layouts/post.astro"),
      Key(129, "title", "ChatGPT - A Huge Help with SSL Certificates!"),
      Key(130, "description", "Watch me interact with ChatGPT as it provides nuanced and detailed responses helping me configure a private self-signed CA for my Tanzu Application Platform, Kubernetes (minikube) and Harbor lab"),
      Comment(131),
      Key(132, "tags", ""),
      Item(133, "Intro"),
      Item(134, "ChatGPT"),
      Item(135, "Bash"),
      Item(136, "Platform Engineering"),
      Item(137, "Kubernetes"),
      Item(138, "Certificates"),
      Item(139, "OvaTheTap"),
      Key(140, "author", "Art Fewell"),
      Key(141, "authorTwitter", "afewell"),
      DateKey(142, <<"2","0","2","2","-","1","2","-","2","3","T","0","8",":","0","0",":","1","8",".","2","7","6","Z">>),
      Fence(143),
      Text(144, 276)>>

\* src/src/pages/blog/SuperSimpleGitopsNotetaking.md (74 lines)
File_SuperSimpleGitopsNotetaking ==
    <<Fence(1),
      Key(2, "layout", "$/layouts/post.astro"),
      Key(3, "title", "Git your ops: Make it super simple to document while bootstrapping your infracode"),
      Key(4, "description", "When we are under tight deadlines it can be very hard to document each step while building a project and often results in many things not being well documented or easily reusable. This video shows how I use github projects for part of my overall solution which also includes automated semantic versioning, packaging documentation and gitops maintenance"),
      Comment(5),
      Key(6, "tags", ""),
      Item(7, "GitOps"),
      Item(8, "Platform Engineering"),
      Item(9, "Kubernetes"),
      Item(10, "Github Projects"),
      Item(11, "Agile"),
      Key(12, "author", "Art Fewell"),
      Key(13, "authorTwitter", "afewell"),
      DateKey(14, <<"2","0","2","2","-","1","2","-","2","4","T","0","8",":","0","0",":","1","8",".","2","7","6","Z">>),
      Fence(15),
      Text(16, 6),
      Fence(22),
      Key(23, "layout", "$/layouts/post.astro"),
      Key(24, "title", "Automate Versioning and Documentation for gitops with Semantic Release and Github Projects"),
      Key(25, "description", "Learn how to use github projects and semantic release to simplify and automate versioning and documentation for your"),
      Comment(26),
      Key(27, "tags", ""),
      Item(28, "GitOps"),
      Item(29, "Platform Engineering"),
      Item(30, "Kubernetes"),
      Item(31, "Github Projects"),
      Item(32, "Agile"),
      Item(33, "Semantic release"),
      Key(34, "author", "Art Fewell"),
      Key(35, "authorTwitter", "afewell"),
      DateKey(36, <<"2","0","2","3","-","0","7","-","2","4","T","0","8",":","0","0",":","1","8",".","2","7","6","Z">>),
      Fence(37),
      Text(38, 37)>>

\* src/src/pages/blog/WhenChatGPTisWrong.md (714 lines)
File_WhenChatGPTisWrong ==
    <<Fence(1),
      Key(2, "layout", "$/layouts/post.astro"),
      Key(3, "title", "When ChatGPT is wrong"),
      Key(4, "description", "ChatGPT is an amazing tool, but it is often wrong. And perhaps its biggest weakeness is that it does not seem to express uncertainty - when it answers, even if it is wrong, it does so with an authoritative certainty that could cause big problems if not understood and used with strict discipline."),
      Comment(5),
      Key(6, "tags", ""),
      Item(7, "ChatGPT"),
      Item(8, "GitOps"),
      Item(9, "Platform Engineering"),
      Item(10, "Kubernetes"),
      Item(11, "Devops"),
      Item(12, "Artificial Intelligence"),
      Item(13, "Machine Learning"),
      Key(14, "author", "Art Fewell"),
      Key(15, "authorTwitter", "afewell"),
      DateKey(16, <<"2","0","2","2","-","1","2","-","2","8","T","0","8",":","0","0",":","1","8",".","2","7","6","Z">>),
      Fence(17),
      Text(18, 237),
      Fence(255),
      Key(256, "layout", "$/layouts/post.astro"),
      Key(257, "title", "Setting up Gitlab for my Tanzu Application Platform 1.4 Lab"),
      Key(258, "description", "In this blog I will walk through the steps I used to plan, install, configure and integrate Gitlab with Tanzu Application Platform 1.4.0 in my lab environment."),
      Comment(259),
      Key(260, "tags", ""),
      Item(261, "Tanzu"),
      Item(262, "Tanzu Application Platform"),
      Item(263, "Gitlab"),
      Item(264, "Cert-Manager"),
      Item(265, "Platform Engineering"),
      Item(266, "Kubernetes"),
      Item(267, "Tanzu Packages"),
      Item(268, "Certificates"),
      Item(269, "Private Certificate Authority"),
      Item(270, "OvaTheTap"),
      Item(271, "Backstage"),
      Item(272, "Spotify Backstage"),
      Key(273, "author", "Art Fewell"),
      Key(274, "authorTwitter", "afewell"),
      DateKey(275, <<"2","0","2","3","-","1","-","2","7","T","0","8",":","0","0",":","1","8",".","2","7","6","Z">>),
      Fence(276),
      Text(277, 438)>>

\* src/src/pages/blog/welcomeTo2024Autogen.md (172 lines)
File_welcomeTo2024Autogen ==
    <<Fence(1),
      Key(2, "layout", "$/layouts/post.astro"),
      Key(3, "title", "Welcome to 2024: Time to Start Kicking A$$ with AI - Bootstrap your multi-agent workflows the easy way with AutoGen Studio on Tanzu Kubernetes Grid"),
      Key(4, "description", "Asking the chatbot questions was so 2023, time to step up to multi-agent workflows with Microsoft's awesome new multi-agent framework Autogen and it's simple, easy-to-use no code web app, Autogen Studio. We will run it on Tanzu Kubernetes Grid on vSphere using vscode dev containers to grok it with cloud server performance with a local desktop UX, strap in and come along for the ride!"),
      Comment(5),
      Key(6, "tags", ""),
      Item(7, "ChatGPT"),
      Item(8, "Tanzu"),
      Item(9, "Artificial Intelligence"),
      Item(10, "Kubernetes"),
      Item(11, "GPT4"),
      Item(12, "AutoGen"),
      Item(13, "Machine Learning"),
      Item(14, "LLM"),
      Item(15, "Tanzu Application Platform"),
      Key(16, "author", "Art Fewell"),
      Key(17, "authorTwitter", "afewell"),
      DateKey(18, <<"2","0","2","4","-","0","1","-","0","3","T","1","1",":","0","0",":","1","8",".","2","7","6","Z">>),
      Fence(19),
      Text(20, 153)>>

\* src/unnamed/part_000 (375 lines)
File_part_000 ==
    <<Fence(1),
      Key(2, "layout", "$/layouts/post.astro"),
      Key(3, "title", "Automated Data Ingestion and AI-Assisted Extraction with GPT-4 and example extraction from VMware Tanzu documentation - Part 1"),
      Key(4, "description", "In this 2 part series, I go over code that can scrape a website or subsection of a website, clean the data, and automate calling GPT-4 with context from the ingested documents with a prompt that successfully extracts desired content in a specified format."),
      Comment(5),
      Key(6, "tags", ""),
      Item(7, "ChatGPT"),
      Item(8, "Tanzu"),
      Item(9, "Platform Engineering"),
      Item(10, "Kubernetes"),
      Item(11, "Devops"),
      Item(12, "AIops"),
      Item(13, "Artificial Intelligence"),
      Item(14, "Machine Learning"),
      Item(15, "Tanzu CLI"),
      Item(16, "Tanzu Application Platform"),
      Key(17, "author", "Art Fewell"),
      Key(18, "authorTwitter", "afewell"),
      DateKey(19, <<"2","0","2","3","-","0","4","-","0","3","T","0","8",":","0","0",":","1","8",".","2","7","6","Z">>),
      Fence(20),
      Text(21, 132),
      Fence(153),
      Key(154, "layout", "$/layouts/post.astro"),
      Key(155, "title", "ChatGPT Logs: Can you improve this bash script?"),
      Key(156, "description", "Watch ChatGPT masterfully rewrite my bash script"),
      Comment(157),
      Key(158, "tags", ""),
      Item(159, "Intro"),
      Item(160, "ChatGPT"),
      Item(161, "Bash"),
      Key(162, "author", "Art Fewell"),
      Key(163, "authorTwitter", "afewell"),
      DateKey(164, <<"2","0","2","2","-","1","2","-","2","1","T","0","8",":","0","0",":","1","8",".","2","7","6","Z">>),
      Fence(165),
      Text(166, 210)>>

\* src/unnamed/part_001 (1029 lines)
File_part_001 ==
    <<Fence(1),
      Key(2, "layout", "$/layouts/post.astro"),
      Key(3, "title", "Gitops-based Kubernetes Cluster lifecycle management with Tanzu, Aria Automation, Terraform and Azure"),
      Key(4, "description", "This post walks through setting up infrastructure as code deployments of Tanzu Mission Control managed Kubernetes clusters using Aria Automation and Terraform. It provides a step-by-step guide on connecting a Git repo to Aria, enabling the Terraform service, creating Terraform files to deploy an Azure Kubernetes Service cluster with Tanzu Mission Control, importing the Terraform into an Aria blueprint, and deploying the cluster. The author shares their hands-on experience and lessons learned from using Aria Automation to implement a GitOps-based workflow for provisioning lifecycle managed clusters. Key highlights include Aria's support for Terraform, secrets management, and its robust platform capabilities that enable creating custom automations."),
      Comment(5),
      Key(6, "tags", ""),
      Item(7, "VMware"),
      Item(8, "Tanzu"),
      Item(9, "Tanzu Mission Control"),
      Item(10, "Tanzu Application Platform"),
      Item(11, "Tanzu for Kubernetes Operations"),
      Item(12, "Kubernetes"),
      Item(13, "Aria Automation"),
      Item(14, "Aria Assembler"),
      Item(15, "Aria Pipelines"),
      Item(16, "Aria Service Broker"),
      Item(17, "Terraform"),
      Item(18, "Azure"),
      Item(19, "Azure Kubernetes Service"),
      Item(20, "ABX Actions"),
      Item(21, "Aria Blueprints"),
      Item(22, "Infrastructure-as-code"),
      Item(23, "Gitops"),
      Key(24, "author", "Art Fewell"),
      Key(25, "authorTwitter", "ACMTechZone"),
      DateKey(26, <<"2","0","2","3","-","1","0","-","0","4","T","0","8",":","0","0",":","1","8",".","2","7","6","Z">>),
      Fence(27),
      Text(28, 491),
      Fence(519),
      Key(520, "layout", "$/layouts/post.astro"),
      Key(521, "title", "Creating a Custom ClusterIssuer using a Private Certificate Authority for a Tanzu Application Platform 1.4 Installation"),
      Key(522, "description", "Watch me interact with ChatGPT as it provides nuanced and detailed responses helping me configure a private self-signed CA for my Tanzu Application Platform, Kubernetes (minikube) and Harbor lab"),
      Comment(523),
      Key(524, "tags", ""),
      Item(525, "Tanzu"),
      Item(526, "Tanzu Application Platform"),
      Item(527, "Cert-Manager"),
      Item(528, "Platform Engineering"),
      Item(529, "Kubernetes"),
      Item(530, "Tanzu Packages"),
      Item(531, "Certificates"),
      Item(532, "Private Certificate Authority"),
      Item(533, "OvaTheTap"),
      Key(534, "author", "Art Fewell"),
      Key(535, "authorTwitter", "afewell"),
      DateKey(536, <<"2","0","2","3","-","1","-","2","3","T","0","8",":","0","0",":","1","8",".","2","7","6","Z">>),
      Fence(537),
      Text(538, 87),
      Fence(625),
      Key(626, "layout", "$/layouts/post.astro"),
      Key(627, "title", "Can I train an AI effectively with just source code? Accelerating bot training with ChatGPT - Part 1"),
      Key(628, "description", "A lot of the data needed to train a bot has needed significant human input, but, can ChatGPT dynamically provide this data and dramatically simplify and accelerate bot training? Lets find out!"),
      Comment(629),
      Key(630, "tags", ""),
      Item(631, "ChatGPT"),
      Item(632, "Developer Experience"),
      Item(633, "Devx"),
      Item(634, "Artificial Intelligence"),
      Item(635, "Machine Learning"),
      Item(636, "Plugin Oriented Programming"),
      Item(637, "Fine-Tuning"),
      Item(638, "Idem"),
      Item(639, "Idem project"),
      Item(640, "Python"),
      Key(641, "author", "Art Fewell"),
      Key(642, "authorTwitter", "afewell"),
      DateKey(643, <<"2","0","2","3","-","2","-","1","4","T","0","8",":","0","0",":","1","8",".","2","7","6","Z">>),
      Fence(644),
      Text(645, 385)>>

\* src/unnamed/part_002 (241 lines)
File_part_002 ==
    <<Fence(1),
      Key(2, "layout", "$/layouts/post.astro"),
      Key(3, "title", "Automated Data Ingestion and AI-Assisted Extraction with GPT-4 and example extraction from VMware Tanzu documentation - Part 2"),
      Key(4, "description", "In this 2 part series, I go over code that can scrape a website or subsection of a website, clean the data, and automate calling GPT-4 with context from the ingested documents with a prompt that successfully extracts desired content in a specified format."),
      Comment(5),
      Key(6, "tags", ""),
      Item(7, "ChatGPT"),
      Item(8, "Tanzu"),
      Item(9, "Platform Engineering"),
      Item(10, "Kubernetes"),
      Item(11, "Devops"),
      Item(12, "AIops"),
      Item(13, "Artificial Intelligence"),
      Item(14, "Machine Learning"),
      Item(15, "Tanzu CLI"),
      Item(16, "Tanzu Application Platform"),
      Key(17, "author", "Art Fewell"),
      Key(18, "authorTwitter", "afewell"),
      DateKey(19, <<"2","0","2","3","-","0","4","-","0","3","T","0","8",":","0","0",":","1","8",".","2","7","6","Z">>),
      Fence(20),
      Text(21, 117),
      Fence(138),
      Comment(139),
      Fence(140),
      Text(141, 101)>>

\* part_003 with its only tag (line 7) deleted
File_part_003_NoTag ==
    <<Fence(1),
      Key(2, "layout", "$/layouts/post.astro"),
      Key(3, "title", "Welcome to my new blog site"),
      Key(4, "description", "Introducing the new Art of Tanzu blog site, scope, plans & vision."),
      Comment(5),
      Key(6, "tags", ""),
      Key(7, "author", "Art Fewell"),
      Key(8, "authorTwitter", "afewell"),
      DateKey(9, <<"2","0","2","2","-","1","1","-","1","9","T","0","8",":","0","0",":","1","8",".","2","7","6","Z">>),
      Fence(10),
      Text(11, 40)>>

\* part_003 with the authorTwitter line (line 9) deleted
File_part_003_NoAuthorTwitter ==
    <<Fence(1),
      Key(2, "layout", "$/layouts/post.astro"),
      Key(3, "title", "Welcome to my new blog site"),
      Key(4, "description", "Introducing the new Art of Tanzu blog site, scope, plans & vision."),
      Comment(5),
      Key(6, "tags", ""),
      Item(7, "Intro"),
      Key(8, "author", "Art Fewell"),
      DateKey(9, <<"2","0","2","2","-","1","1","-","1","9","T","0","8",":","0","0",":","1","8",".","2","7","6","Z">>),
      Fence(10),
      Text(11, 40)>>

\* part_003 with its tag line (line 7) pasted twice
File_part_003_TagTwice ==
    <<Fence(1),
      Key(2, "layout", "$/layouts/post.astro"),
      Key(3, "title", "Welcome to my new blog site"),
      Key(4, "description", "Introducing the new Art of Tanzu blog site, scope, plans & vision."),
      Comment(5),
      Key(6, "tags", ""),
      Item(7, "Intro"),
      Item(8, "Intro"),
      Key(9, "author", "Art Fewell"),
      Key(10, "authorTwitter", "afewell"),
      DateKey(11, <<"2","0","2","2","-","1","1","-","1","9","T","0","8",":","0","0",":","1","8",".","2","7","6","Z">>),
      Fence(12),
      Text(13, 40)>>

\* src/unnamed/part_003 (51 lines)
File_part_003 ==
    <<Fence(1),
      Key(2, "layout", "$/layouts/post.astro"),
      Key(3, "title", "Welcome to my new blog site"),
      Key(4, "description", "Introducing the new Art of Tanzu blog site, scope, plans & vision."),
      Comment(5),
      Key(6, "tags", ""),
      Item(7, "Intro"),
      Key(8, "author", "Art Fewell"),
      Key(9, "authorTwitter", "afewell"),
      DateKey(10, <<"2","0","2","2","-","1","1","-","1","9","T","0","8",":","0","0",":","1","8",".","2","7","6","Z">>),
      Fence(11),
      Text(12, 40)>>


\* the content files of the repository
RepoContent ==
    <<File_MinikubeStartService, File_SuperSimpleGitopsNotetaking,
      File_WhenChatGPTisWrong, File_welcomeTo2024Autogen,
      File_part_000, File_part_001, File_part_002, File_part_003>>

---------------------------------------------------------------------------
(* Reading a content file: the front-matter is the block between a fence   *)
(* on the first line and the next fence; the rest is the markdown body.    *)

\* the elements of a set of numbers, in increasing order
SortedSeq(S) ==
    [r \in 1..Cardinality(S) |->
        CHOOSE x \in S : Cardinality({y \in S : y <= x}) = r]

\* the first fence after line i of the file, or 0
NextFence(file, i) ==
    LET fs == {j \in (i + 1)..Len(file) : file[j].k = "fence"}
    IN  IF fs = {} THEN 0 ELSE CHOOSE j \in fs : \A m \in fs : j <= m

HasFrontMatter(file) ==
    /\ file # <<>>
    /\ file[1].k = "fence"
    /\ NextFence(file, 1) # 0

FrontMatterLines(file) ==
    IF HasFrontMatter(file) THEN SubSeq(file, 2, NextFence(file, 1) - 1) ELSE <<>>

BodyOf(file) ==
    IF HasFrontMatter(file)
    THEN SubSeq(file, NextFence(file, 1) + 1, Len(file))
    ELSE file

\* the positions of the key lines called name
KeyLines(lines, name) ==
    {i \in 1..Len(lines) : lines[i].k = "key" /\ lines[i].name = name}

\* the value of key name (the last one written), or default
ValueOf(lines, name, default) ==
    LET idx == KeyLines(lines, name)
    IN  IF idx = {} THEN default
        ELSE lines[CHOOSE i \in idx : \A j \in idx : j <= i].val

IsItem(line) == line.k = "item"

\* the list under key name: the items between that key and the next key
ItemsOf(lines, name) ==
    LET idx  == KeyLines(lines, name)
        at   == CHOOSE i \in idx : \A j \in idx : j <= i
        keys == {j \in (at + 1)..Len(lines) : lines[j].k = "key"}
        stop == IF keys = {} THEN Len(lines) + 1
                ELSE CHOOSE j \in keys : \A m \in keys : j <= m
        its  == SelectSeq(SubSeq(lines, at + 1, stop - 1), IsItem)
    IN  IF idx = {} THEN <<>> ELSE [i \in 1..Len(its) |-> its[i].val]

\* the post a front-matter block describes
ParsePost(lines) ==
    [fields        |-> {lines[i].name : i \in {j \in 1..Len(lines) : lines[j].k = "key"}},
     title         |-> ValueOf(lines, "title", ""),
     description   |-> ValueOf(lines, "description", ""),
     tags          |-> ItemsOf(lines, "tags"),
     author        |-> ValueOf(lines, "author", ""),
     authorTwitter |-> ValueOf(lines, "authorTwitter", ""),
     date          |-> ValueOf(lines, "date", <<>>),
     draft         |-> ValueOf(lines, "draft", "false") = "true"]

\* whether lines[lo..hi] read as front-matter: keys, items and comments
\* only, with a key among them
IsYamlRegion(lines, lo, hi) ==
    /\ lo <= hi
    /\ \A i \in lo..hi : lines[i].k \in {"key", "item", "comment"}
    /\ \E i \in lo..hi : lines[i].k = "key"

\* the fences in lines that open a front-matter block
BlockStarts(lines) ==
    {i \in 1..Len(lines) :
        /\ lines[i].k = "fence"
        /\ NextFence(lines, i) # 0
        /\ IsYamlRegion(lines, i + 1, NextFence(lines, i) - 1)}

\* the front-matter blocks found below the first one, as posts
LaterBlocks(body) ==
    LET starts == SortedSeq(BlockStarts(body))
    IN  [b \in 1..Len(starts) |->
            ParsePost(SubSeq(body, starts[b] + 1, NextFence(body, starts[b]) - 1))]

\* a post with no tag is rendered all the same
Renders_Always(post) == TRUE

\* "there MUST be at least 1 tag listed or it will not render"
Renders(post) == Len(post.tags) >= 1

BuildResult(file) ==
    [post     |-> ParsePost(FrontMatterLines(file)),
     rendered |-> Renders(ParsePost(FrontMatterLines(file))),
     later    |-> LaterBlocks(BodyOf(file))]

\* the JavaScript truth value of a value
Truthy(val) ==
    CASE val.t = "boolean"   -> val.v
      [] val.t = "string"    -> val.v # <<>>
      [] val.t = "number"    -> val.v # 0
      [] val.t = "undefined" -> FALSE
      [] val.t = "object"    -> TRUE

AllBuilt == \A f \in 1..Len(content) : built[f] # <<>>

\* a post without tags stops the file with an error
BuildPage_FailsOnTagless(f) ==
    /\ built[f] = <<>>
    /\ built' = [built EXCEPT ![f] = <<BuildResult(content[f])>>]
    /\ buildErrors' = IF BuildResult(content[f]).rendered THEN buildErrors
                      ELSE Append(buildErrors, f)
    /\ UNCHANGED <<cfgVars, menu, meta, listing, pages, wire, restored,
                 views, content, index, postVars>>

\* the build takes up file f: reads it and renders it, or leaves it out
BuildPage(f) ==
    /\ built[f] = <<>>
    /\ built' = [built EXCEPT ![f] = <<BuildResult(content[f])>>]
    /\ UNCHANGED <<cfgVars, menu, meta, listing, pages, wire, restored,
                 views, content, buildErrors, index, postVars>>

\* whether the blog index lists file f
Listed(f) ==
    /\ built[f][1].rendered
    /\ Truthy(Get(site, K_listDrafts)) \/ ~built[f][1].post.draft

\* the blog index: the rendered posts, drafts among them if SITE says so
BuildIndex ==
    /\ index = <<>>
    /\ AllBuilt
    /\ index' = <<SelectSeq([f \in 1..Len(content) |-> f], Listed)>>
    /\ UNCHANGED <<cfgVars, menu, meta, listing, pages, wire, restored,
                 views, content, built, buildErrors, postVars>>

\* a made-up content file: tagsKind 0 has no tags key, 1 a tags key with no
\* item, 2 a tags key with one item
MadeUpFile(tagsKind, draft) ==
    <<Fence(1), Key(2, "title", "a post")>>
    \o (IF draft THEN <<Key(3, "draft", "true")>> ELSE <<>>)
    \o (IF tagsKind >= 1 THEN <<Key(4, "tags", "")>> ELSE <<>>)
    \o (IF tagsKind = 2 THEN <<Item(5, "Intro")>> ELSE <<>>)
    \o <<Fence(6), Text(7, 1)>>

MadeUpFiles == {MadeUpFile(tk, d) : tk \in 0..2, d \in BOOLEAN}

Corpora == UNION {[1..n -> MadeUpFiles] : n \in 0..MaxFiles}

\* SITE with listDrafts set to flag
SiteWithDrafts(flag) == SiteOf(Str(SiteUrl), Str(SiteGithubUrl), Bool(flag))

\* the module loaded and no consumer started, the build about to take files
InitBuild(files) ==
    /\ navItems = NAV_ITEMS
    /\ pageSize = PAGE_SIZE
    /\ menu = <<>>
    /\ meta = <<>>
    /\ listing = <<>>
    /\ pages = <<>>
    /\ wire = <<>>
    /\ restored = <<>>
    /\ views = [c \in 1..NumConsumers |-> [e \in 1..3 |-> <<>>]]
    /\ content = files
    /\ built = [f \in 1..Len(files) |-> <<>>]
    /\ buildErrors = <<>>
    /\ index = <<>>
    /\ svc = SvcOff
    /\ oai = OaiIdle
    /\ inst = InstOff

\* the build of the repository's own content, under the shipped SITE
InitRepo == site = SITE /\ InitBuild(RepoContent)

\* the build of any small corpus, with drafts listed or not
InitRender ==
    /\ site \in {SITE, SiteWithDrafts(FALSE)}
    /\ \E files \in Corpora : InitBuild(files)

NextContent ==
    \/ \E f \in 1..Len(content) : BuildPage(f)
    \/ BuildIndex

SpecRepo == InitRepo /\ [][NextContent]_vars

SpecRender == InitRender /\ [][NextContent]_vars

---------------------------------------------------------------------------
(* minikubestart.sh.  The post writes the script through                   *)
(*     sudo bash -c 'cat << EOF > /usr/local/bin/minikubestart.sh ... EOF' *)
(* The delimiter EOF is not quoted, so the shell that runs cat expands the *)
(* body of the here-document before cat sees it: every $(...) is run and   *)
(* every $name is replaced then, and the file holds the results.           *)
(* A word of the script is a command substitution, a variable reference    *)
(* or literal text; the dates $(date) writes are left out of the log.      *)

\* how many runs of `minikube start` are told apart; later ones count as this
MaxAttempts == 5

\* $( minikube status | grep "apiserver: Running")
CmdSubst == [w |-> "cmd", s |-> ""]

\* "$minikube_running"
VarRef == [w |-> "var", s |-> ""]

Literal(s) == [w |-> "lit", s |-> s]

\* what `minikube status | grep "apiserver: Running"` prints
GrepStatus(api) == IF api THEN "apiserver: Running" ELSE ""

\* the script as the post writes it: the word assigned to minikube_running
\* (lines 69 and 85) and the word the tests look at (lines 72, 78 and 86)
WrittenScript == [assign |-> CmdSubst, test |-> VarRef]

\* a word of a here-document after expansion by the installing shell, in
\* which minikube_running is not set and minikube is running or not
Expand(word, apiAtInstall) ==
    CASE word.w = "cmd" -> Literal(GrepStatus(apiAtInstall))
      [] word.w = "var" -> Literal("")
      [] word.w = "lit" -> word

\* cat << 'EOF': the body kept as written
InstallScript_Verbatim(apiAtInstall) == WrittenScript

\* cat << EOF > /usr/local/bin/minikubestart.sh
InstallScript(apiAtInstall) ==
    [assign |-> Expand(WrittenScript.assign, apiAtInstall),
     test   |-> Expand(WrittenScript.test, apiAtInstall)]

\* minikube_running=WORD.  Literal text of two words makes the second a
\* command run with the assignment in its environment only: the shell's
\* variable stays as it was.
Assigned(word, var, api) ==
    CASE word.w = "cmd" -> GrepStatus(api)
      [] word.w = "var" -> var
      [] word.w = "lit" -> IF word.s = "" THEN "" ELSE var

\* [ -z WORD ]
IsEmpty(word, var, api) ==
    CASE word.w = "cmd" -> GrepStatus(api) = ""
      [] word.w = "var" -> var = ""
      [] word.w = "lit" -> word.s = ""

\* systemd starts the service: mkdir -p, echo "... initiating ..." > log
SvcStartScript ==
    /\ svc.pc = "boot"
    /\ svc' = [svc EXCEPT !.pc = "check",
                          !.log = {"the minikubestart service is initiating"}]
    /\ UNCHANGED <<cfgVars, menu, meta, listing, pages, wire, restored,
                 views, contentVars, oai, inst>>

\* minikube_running=... (line 69, and line 85 inside the loop)
SvcCheckStatus ==
    /\ svc.pc = "check"
    /\ svc' = [svc EXCEPT !.pc = "report",
                          !.minikube_running =
                              Assigned(svc.script.assign, svc.minikube_running, svc.api)]
    /\ UNCHANGED <<cfgVars, menu, meta, listing, pages, wire, restored,
                 views, contentVars, oai, inst>>

\* if [ -z ... ]; then echo "minikube is not running" else echo "Minikube is
\* running" fi >> log (lines 72-75, and 86-91 inside the loop)
SvcReport ==
    /\ svc.pc = "report"
    /\ svc' = [svc EXCEPT
                 !.pc = "while",
                 !.log = svc.log \cup
                     {IF IsEmpty(svc.script.test, svc.minikube_running, svc.api)
                      THEN "minikube is not running"
                      ELSE "Minikube is running"}]
    /\ UNCHANGED <<cfgVars, menu, meta, listing, pages, wire, restored,
                 views, contentVars, oai, inst>>

\* while [ -z ... ] (line 78): into the loop body, or past done to the end
SvcWhile ==
    /\ svc.pc = "while"
    /\ svc' = [svc EXCEPT
                 !.pc = IF IsEmpty(svc.script.test, svc.minikube_running, svc.api)
                        THEN "attempt" ELSE "done"]
    /\ UNCHANGED <<cfgVars, menu, meta, listing, pages, wire, restored,
                 views, contentVars, oai, inst>>

\* echo "attempting to start minikube"; minikube start | tee -a log; sleep 10
\* (lines 80-83).  The start leaves the apiserver running or it does not; a
\* running apiserver stays running.
SvcAttempt ==
    /\ svc.pc = "attempt"
    /\ \E up \in BOOLEAN :
          svc' = [svc EXCEPT
                    !.pc = "check",
                    !.log = svc.log \cup {"attempting to start minikube",
                                          "(output of minikube start)"},
                    !.api = svc.api \/ up,
                    !.starts = Min(svc.starts + 1, MaxAttempts)]
    /\ UNCHANGED <<cfgVars, menu, meta, listing, pages, wire, restored,
                 views, contentVars, oai, inst>>

\* the site's own state, as loaded and with no consumer started
InitSite ==
    /\ navItems = NAV_ITEMS
    /\ site = SITE
    /\ pageSize = PAGE_SIZE
    /\ menu = <<>>
    /\ meta = <<>>
    /\ listing = <<>>
    /\ pages = <<>>
    /\ wire = <<>>
    /\ restored = <<>>
    /\ views = [c \in 1..NumConsumers |-> [e \in 1..3 |-> <<>>]]
    /\ content = <<>>
    /\ built = <<>>
    /\ buildErrors = <<>>
    /\ index = <<>>

\* the script installed while minikube was running or not; at boot the
\* apiserver is running or not, and the service is started
InitMinikube ==
    /\ InitSite
    /\ oai = OaiIdle
    /\ inst = InstOff
    /\ \E apiAtInstall \in BOOLEAN, apiAtBoot \in BOOLEAN :
          svc = [pc |-> "boot", minikube_running |-> "", log |-> {},
                 api |-> apiAtBoot, bootApi |-> apiAtBoot, starts |-> 0,
                 script |-> InstallScript(apiAtInstall)]

NextMinikube ==
    \/ SvcStartScript
    \/ SvcCheckStatus
    \/ SvcReport
    \/ SvcWhile
    \/ SvcAttempt

SpecMinikube == InitMinikube /\ [][NextMinikube]_vars

\* the script is a process of its own: as long as it has a next command it
\* runs it
SpecMinikubeLive == SpecMinikube /\ WF_vars(NextMinikube)

---------------------------------------------------------------------------
(* openaicall.py and the loop of main.py.  A response is named by a        *)
(* string; openai_responses.json is a sequence of tokens: "[", "]", ","    *)
(* and the responses written between them.  oai.file is <<>> when there is *)
(* no file and <<text>> when there is one.                                  *)

\* how many files the loop of main.py hands to call_openai_api
MaxCalls == 4

\* completions.choices[0].to_dict()
Responses == {"r1", "r2"}

\* json.dump(data, f, indent=4)
JsonDump(data) ==
    <<"[">>
    \o Flatten([i \in 1..Len(data) |->
                    IF i = 1 THEN <<data[i]>> ELSE <<",", data[i]>>])
    \o <<"]">>

\* json.load(f): the list read, or a JSONDecodeError
JsonLoad(text) ==
    LET inner == SubSeq(text, 2, Len(text) - 1)
        ok    == /\ Len(text) >= 2
                 /\ text[1] = "["
                 /\ text[Len(text)] = "]"
                 /\ inner # <<>> => Len(inner) % 2 = 1
                 /\ \A i \in 1..Len(inner) :
                       IF i % 2 = 1 THEN inner[i] \in Responses
                                    ELSE inner[i] = ","
    IN  [ok |-> ok,
         v  |-> IF ok THEN [j \in 1..((Len(inner) + 1) \div 2) |-> inner[2 * j - 1]]
                ELSE <<>>]

\* what the filesystem does to a save: nothing, or it fails the open for
\* reading, the open for writing, or the write after cut tokens
Faults == {"none", "read", "open", "dump"}

\* the file is written from the new response alone: data is never read back
SaveAttempt_Overwrites(file, response, fault, cut) ==
    LET text == JsonDump(<<response>>)
    IN  IF fault = "open" THEN [file |-> file, stage |-> "open"]
        ELSE IF fault = "dump"
             THEN [file  |-> <<SubSeq(text, 1, Min(cut, Len(text) - 1))>>,
                   stage |-> "dump"]
        ELSE [file |-> <<text>>, stage |-> "none"]

\* the body of the try block of save_response_to_json (lines 73-79): the
\* file afterwards and the stage that raised, "none" if none did
SaveAttempt(file, response, fault, cut) ==
    LET exists == file # <<>>
        loaded == IF exists THEN JsonLoad(file[1]) ELSE [ok |-> TRUE, v |-> <<>>]
        text   == JsonDump(Append(loaded.v, response))
    IN  IF exists /\ fault = "read" THEN [file |-> file, stage |-> "read"]
        ELSE IF ~loaded.ok THEN [file |-> file, stage |-> "parse"]
        ELSE IF fault = "open" THEN [file |-> file, stage |-> "open"]
        ELSE IF fault = "dump"
             THEN [file  |-> <<SubSeq(text, 1, Min(cut, Len(text) - 1))>>,
                   stage |-> "dump"]
        ELSE [file |-> <<text>>, stage |-> "none"]

\* logger = logging.getLogger(...) added to the module: the handler logs and
\* the function returns normally
SaveResponseToJson_LoggerDefined(file, response, fault, cut) ==
    [file   |-> SaveAttempt(file, response, fault, cut).file,
     stage  |-> SaveAttempt(file, response, fault, cut).stage,
     raised |-> <<>>]

\* save_response_to_json (lines 71-81).  The handler of line 80 catches what
\* the try block raised and calls logger.error; the module defines
\* error_logger and action_logger but no logger, so the handler raises
\* NameError, which leaves the function.
SaveResponseToJson(file, response, fault, cut) ==
    [file   |-> SaveAttempt(file, response, fault, cut).file,
     stage  |-> SaveAttempt(file, response, fault, cut).stage,
     raised |-> IF SaveAttempt(file, response, fault, cut).stage = "none"
                THEN <<>> ELSE <<"NameError">>]

\* except Exception as e (line 109): the exception classes it catches
CaughtAsException(raised) ==
    raised[1] \in {"OpenAIError", "NameError", "OSError", "JSONDecodeError"}

\* one pass of the loop of main.py: call_openai_api(text, openai_api_key)
\* (lines 83-111).  The request fails or answers with a response; then the
\* response is saved.
CallOpenaiApi(apiOk, response, fault, cut) ==
    LET saved  == SaveResponseToJson(oai.file, response, fault, cut)
        raised == IF ~apiOk THEN <<"OpenAIError">> ELSE saved.raised
    IN  /\ oai.calls < MaxCalls
        /\ oai' = [file      |-> IF apiOk THEN saved.file ELSE oai.file,
                   returned  |-> IF raised = <<>> THEN Append(oai.returned, response)
                                 ELSE oai.returned,
                   last      |-> IF raised = <<>> THEN <<response>>
                                 ELSE IF CaughtAsException(raised) THEN <<"None">>
                                 ELSE <<>>,
                   calls     |-> oai.calls + 1,
                   apiFailed |-> ~apiOk,
                   saveFault |-> IF apiOk THEN saved.stage ELSE "none",
                   escaped   |-> IF raised = <<>> THEN FALSE
                                 ELSE ~CaughtAsException(raised),
                   errors    |-> IF raised = <<>> THEN oai.errors
                                 ELSE oai.errors + 1]
        /\ UNCHANGED <<cfgVars, menu, meta, listing, pages, wire, restored,
                     views, contentVars, svc, inst>>

\* main.py started in a directory without openai_responses.json
InitOpenai ==
    /\ InitSite
    /\ svc = SvcOff
    /\ inst = InstOff
    /\ oai = OaiIdle

\* the longest text json.dump writes within MaxCalls calls
MaxTextLen == 2 * MaxCalls + 1

NextOpenai ==
    \E apiOk \in BOOLEAN, response \in Responses, fault \in Faults,
       cut \in 0..(MaxTextLen - 1) :
        CallOpenaiApi(apiOk, response, fault, cut)

SpecOpenai == InitOpenai /\ [][NextOpenai]_vars

---------------------------------------------------------------------------
(* The install script and its refactoring.  Both are run on the same       *)
(* input: the flag -u given or not, the user's answer to the prompt about  *)
(* each thing to install, and /tmp/postactions.txt left behind or not.     *)
(* What a script does is the sequence of its install actions.              *)

\* how many prompts the user answers with y or Y
MaxAccepted == 2

Act(kind, arg) == <<kind, arg>>

\* the original script: prompt and action, block after block (lines 184-273)
OriginalBlocks ==
    <<Act("snap",   "snap"),
      Act("apt",    "openssh-server"),
      Act("apt",    "ntp"),
      Act("apt",    "curl"),
      Act("apt",    "vim"),
      Act("apt",    "git"),
      Act("script", "age-v1_0_0.sh"),
      Act("script", "dockerce.sh"),
      Act("script", "vscode.sh"),
      Act("apt",    "jq"),
      Act("script", "minikube.sh"),
      Act("script", "kubectl.sh"),
      Act("script", "helm.sh"),
      Act("script", "dnsmasq.sh"),
      Act("script", "certificateauthority.sh")>>

\* packages=( ... ) (lines 299-306)
packages == <<"openssh-server", "ntp", "curl", "vim", "git", "jq">>

\* scripts=( ... ) (lines 309-317)
scripts ==
    <<"age-v1_0_0.sh", "dockerce.sh", "vscode.sh", "minikube.sh",
      "kubectl.sh", "helm.sh", "dnsutils.sh">>

\* everything either script asks about
Prompted ==
    {OriginalBlocks[i][2] : i \in 1..Len(OriginalBlocks)}
    \cup {packages[i] : i \in 1..Len(packages)}
    \cup {scripts[i] : i \in 1..Len(scripts)}

\* what the user types at a prompt; "n" stands for anything but y and Y
Answers == {"y", "Y", "n"}

\* the answer sheets with at most MaxAccepted prompts answered y or Y
AnswerSheets ==
    UNION {{[x \in Prompted |-> IF x \in S THEN yes[x] ELSE "n"] :
                yes \in [S -> Answers \ {"n"}]} :
           S \in {T \in SUBSET Prompted : Cardinality(T) <= MaxAccepted}}

\* [ "$install" = "y" ] || [ "$install" = "Y" ]
Accepted(install) == install = "y" \/ install = "Y"

\* if [ "${install_all}" ]; then install=y; else read -p "..." install; fi
AskOrAll(flag, answers, arg) == IF flag THEN "y" ELSE answers[arg]

\* one block of the original script (lines 184-189, and so on to 269-273)
OriginalBlock ==
    /\ inst.pc = "original"
    /\ inst.at <= Len(OriginalBlocks)
    /\ LET block   == OriginalBlocks[inst.at]
           install == AskOrAll(inst.flag, inst.answers, block[2])
       IN  inst' = [inst EXCEPT
                      !.install = install,
                      !.at = inst.at + 1,
                      !.original = IF Accepted(install)
                                   THEN Append(inst.original, block)
                                   ELSE inst.original]
    /\ UNCHANGED <<cfgVars, menu, meta, listing, pages, wire, restored,
                 views, contentVars, svc, oai>>

\* if [ -f /tmp/postactions.txt ] then cat; rm (lines 279-283); the
\* refactored script is then run in a shell of its own
OriginalPostActions ==
    /\ inst.pc = "original"
    /\ inst.at = Len(OriginalBlocks) + 1
    /\ inst' = [inst EXCEPT
                  !.pc = "refactored snap",
                  !.at = 1,
                  !.install = "",
                  !.original = IF inst.postactions
                               THEN Append(inst.original, Act("postactions", ""))
                               ELSE inst.original]
    /\ UNCHANGED <<cfgVars, menu, meta, listing, pages, wire, restored,
                 views, contentVars, svc, oai>>

\* [ "$install_all" ] || [ "$install" = "y" ] || [ "$install" = "Y" ]
\* (lines 322, 331 and 338)
AllOrAccepted(flag, install) == flag \/ Accepted(install)

\* the refactored script's snap block (lines 338-342): no prompt before it
RefactoredSnap ==
    /\ inst.pc = "refactored snap"
    /\ inst' = [inst EXCEPT
                  !.pc = "refactored packages",
                  !.refactored = IF AllOrAccepted(inst.flag, inst.install)
                                 THEN Append(inst.refactored, Act("snap", "snap"))
                                 ELSE inst.refactored]
    /\ UNCHANGED <<cfgVars, menu, meta, listing, pages, wire, restored,
                 views, contentVars, svc, oai>>

\* for package in "${packages[@]}" (lines 345-352, func_apt_install 320-326)
RefactoredPackage ==
    /\ inst.pc = "refactored packages"
    /\ LET install == AskOrAll(inst.flag, inst.answers, packages[inst.at])
       IN  inst' = [inst EXCEPT
                      !.install = install,
                      !.pc = IF inst.at = Len(packages)
                             THEN "refactored scripts" ELSE inst.pc,
                      !.at = IF inst.at = Len(packages) THEN 1 ELSE inst.at + 1,
                      !.refactored =
                          IF AllOrAccepted(inst.flag, install)
                          THEN Append(inst.refactored, Act("apt", packages[inst.at]))
                          ELSE inst.refactored]
    /\ UNCHANGED <<cfgVars, menu, meta, listing, pages, wire, restored,
                 views, contentVars, svc, oai>>

\* for script in "${scripts[@]}" (lines 355-362, func_install_script 329-335)
RefactoredScript ==
    /\ inst.pc = "refactored scripts"
    /\ LET install == AskOrAll(inst.flag, inst.answers, scripts[inst.at])
       IN  inst' = [inst EXCEPT
                      !.install = install,
                      !.pc = IF inst.at = Len(scripts) THEN "done" ELSE inst.pc,
                      !.at = IF inst.at = Len(scripts) THEN 1 ELSE inst.at + 1,
                      !.refactored =
                          IF AllOrAccepted(inst.flag, install)
                          THEN Append(inst.refactored, Act("script", scripts[inst.at]))
                          ELSE inst.refactored]
    /\ UNCHANGED <<cfgVars, menu, meta, listing, pages, wire, restored,
                 views, contentVars, svc, oai>>

\* -u given (no prompt is asked), or not given and the prompts answered
InitInstall ==
    /\ InitSite
    /\ svc = SvcOff
    /\ oai = OaiIdle
    /\ \E flag \in BOOLEAN, post \in BOOLEAN, answers \in AnswerSheets :
          /\ flag => \A x \in Prompted : answers[x] = "n"
          /\ inst = [pc |-> "original", flag |-> flag, answers |-> answers,
                     postactions |-> post, at |-> 1, install |-> "",
                     original |-> <<>>, refactored |-> <<>>]

NextInstall ==
    \/ OriginalBlock
    \/ OriginalPostActions
    \/ RefactoredSnap
    \/ RefactoredPackage
    \/ RefactoredScript

SpecInstall == InitInstall /\ [][NextInstall]_vars

---------------------------------------------------------------------------

Next ==
    \/ RenderMenuLink
    \/ \E i \in 1..Len(navItems.v) : PopulateMeta(i)
    \/ \E n \in 0..MaxPosts : BuildListing(n)
    \/ PaginateStep
    \/ SerializeConfig
    \/ DeserializeConfig

Spec == Init /\ [][Next]_vars

---------------------------------------------------------------------------
(* Character classes and shapes the properties below speak of.             *)

LowerLetters ==
    {"a","b","c","d","e","f","g","h","i","j","k","l","m",
     "n","o","p","q","r","s","t","u","v","w","x","y","z"}

UpperLetters ==
    {"A","B","C","D","E","F","G","H","I","J","K","L","M",
     "N","O","P","Q","R","S","T","U","V","W","X","Y","Z"}

Whitespace == {" ", "\t", "\n", "\r"}

\* the characters a URL scheme may hold after its first letter
SchemeChars ==
    LowerLetters \cup UpperLetters
    \cup {DigitChars[d] : d \in 1..10} \cup {"+", "-", "."}

\* scheme "://" host ..., the scheme starting with a letter, the host not
\* empty, and no whitespace anywhere
IsAbsoluteUrl(s) ==
    /\ \A j \in 1..Len(s) : s[j] \notin Whitespace
    /\ \E k \in 2..Len(s) :
          /\ StartsAt(s, k, <<":", "/", "/">>)
          /\ s[1] \in LowerLetters \cup UpperLetters
          /\ \A j \in 1..(k - 1) : s[j] \in SchemeChars
          /\ k + 3 <= Len(s)
          /\ s[k + 3] \notin {"/", "?", "#"}

\* the i-th entry of NAV_ITEMS: its { path, title } object
NavEntryAt(i) == navItems.v[i].v

IsString(val) == val.t = "string"

---------------------------------------------------------------------------
(* C1: every entry of NAV_ITEMS has a path that starts with '/' and a      *)
(* title that is a non-empty string.                                       *)
C1_NavPathsRootedTitlesNonEmpty ==
    \A i \in 1..Len(navItems.v) :
        /\ IsString(Get(NavEntryAt(i), K_path))
        /\ Len(Get(NavEntryAt(i), K_path).v) >= 1
        /\ Get(NavEntryAt(i), K_path).v[1] = "/"
        /\ IsString(Get(NavEntryAt(i), K_title))
        /\ Len(Get(NavEntryAt(i), K_title).v) >= 1

\* the whole menu is rendered: every link targets a rooted path and carries
\* a label
C1_Witness ==
    /\ MenuDone
    /\ menu # <<>>
    /\ \A i \in 1..Len(menu) : menu[i].target[1] = "/" /\ menu[i].label # <<>>

(* C2: NAV_ITEMS has exactly four entries, under the four distinct keys    *)
(* home, blog, tags and about, and under no other key.                     *)
C2_NavHasExactlyFourKeys ==
    /\ Len(navItems.v) = 4
    /\ {navItems.v[i].k : i \in 1..Len(navItems.v)}
           = {K_home, K_blog, K_tags, K_about}
    /\ \A i, j \in 1..Len(navItems.v) :
           navItems.v[i].k = navItems.v[j].k => i = j

\* the renderer has walked all four keys
C2_Witness ==
    /\ MenuDone
    /\ Len(menu) = 4
    /\ Cardinality({navItems.v[i].k : i \in 1..Len(navItems.v)}) = 4

(* C3: the menu renderer emits exactly one link per entry, in mapping      *)
(* order (home, blog, tags, about as shipped); each link's label is the    *)
(* entry's title and its target the entry's path; nothing is added,        *)
(* dropped, duplicated or reordered.                                       *)
C3_MenuIsNavItemsInOrder ==
    /\ Len(menu) <= Len(navItems.v)
    /\ \A i \in 1..Len(menu) :
           /\ menu[i].label = Get(NavEntryAt(i), K_title).v
           /\ menu[i].target = Get(NavEntryAt(i), K_path).v
    /\ MenuDone =>
           /\ [i \in 1..Len(menu) |-> menu[i].label]
                  = <<K_home, K_blog, K_tags, K_about>>
           /\ [i \in 1..Len(menu) |-> menu[i].target]
                  = << <<"/">>, <<"/">> \o K_blog,
                       <<"/">> \o K_tags, <<"/">> \o K_about >>

\* the finished menu: four links, blog second and about last
C3_Witness ==
    /\ MenuDone
    /\ Len(menu) = 4
    /\ menu[2] = [label |-> K_blog, target |-> <<"/">> \o K_blog]
    /\ menu[4].label = K_about

(* C4: once the module is loaded, no step of any consumer (menu rendering, *)
(* metadata population, pagination, serialisation) changes NAV_ITEMS, SITE *)
(* or PAGE_SIZE: each keeps its initial value.                             *)
C4_ConfigNeverChanges ==
    [][/\ navItems' = navItems /\ navItems = NAV_ITEMS
       /\ site' = site         /\ site = SITE
       /\ pageSize' = pageSize /\ pageSize = PAGE_SIZE]_vars

\* every consumer has run and the three values are the ones loaded
C4_Witness ==
    /\ MenuDone
    /\ meta # <<>>
    /\ PaginationDone /\ pages # <<>>
    /\ restored # <<>>
    /\ cfgVars = <<NAV_ITEMS, SITE, PAGE_SIZE>>

(* C5: PAGE_SIZE is a positive integer, and it is 8.                       *)
C5_PageSizeIsEight ==
    /\ pageSize \in Nat
    /\ pageSize > 0
    /\ pageSize = 8

\* pagination has cut a full page: it holds PAGE_SIZE = 8 posts
C5_Witness ==
    /\ Len(pages) >= 2
    /\ Len(pages[1]) = pageSize
    /\ Len(pages[1]) = 8

(* C6: SITE.url and SITE.githubUrl are syntactically valid absolute URLs:  *)
(* a scheme, '://', a non-empty host, and no whitespace.                   *)
C6_SiteUrlsAbsolute ==
    /\ IsString(Get(site, K_url))
    /\ IsAbsoluteUrl(Get(site, K_url).v)
    /\ IsString(Get(site, K_githubUrl))
    /\ IsAbsoluteUrl(Get(site, K_githubUrl).v)

\* a page's canonical link has been built on SITE.url and is absolute
C6_Witness ==
    /\ meta # <<>>
    /\ StartsAt(meta[1].canonical, 1, Get(site, K_url).v)
    /\ IsAbsoluteUrl(meta[1].canonical)

(* C7: SITE.listDrafts is a boolean: present, and neither a string nor a   *)
(* number.                                                                 *)
C7_ListDraftsIsBoolean ==
    /\ HasKey(site, K_listDrafts)
    /\ Get(site, K_listDrafts).t = "boolean"
    /\ Get(site, K_listDrafts).v \in BOOLEAN

\* the flag has gone through the wire and come back the boolean true
C7_Witness ==
    /\ restored # <<>>
    /\ HasKey(Get(restored[1], K_SITE), K_listDrafts)
    /\ Get(Get(restored[1], K_SITE), K_listDrafts) = Bool(TRUE)

(* C8: SITE has exactly the six fields name, title, description, url,      *)
(* githubUrl and listDrafts; the first five are strings, listDrafts is a   *)
(* boolean; none is missing and none is extra.                             *)
C8_SiteHasExactlySixFields ==
    /\ Len(site.v) = 6
    /\ {site.v[i].k : i \in 1..Len(site.v)}
           = {K_name, K_title, K_description, K_url, K_githubUrl, K_listDrafts}
    /\ \A key \in {K_name, K_title, K_description, K_url, K_githubUrl} :
           IsString(Get(site, key))
    /\ Get(site, K_listDrafts).t = "boolean"

\* a page's metadata has been filled from the record's title and description
C8_Witness ==
    /\ meta # <<>>
    /\ meta[1].title = SiteName
    /\ meta[1].description = SiteDescription
    /\ Len(site.v) = 6

(* C9: serialising the configuration object and deserialising the result   *)
(* gives back the same structure, keys in the same order with the same     *)
(* values; a second round trip changes nothing.                            *)
C9_RoundTripIsIdentity ==
    /\ \A i \in 1..Len(restored) : restored[i] = ConfigObject
    /\ \A i \in 2..Len(restored) : restored[i] = restored[i - 1]

\* two round trips are complete: the second started from the first's result
C9_Witness ==
    /\ Len(restored) >= 2
    /\ wire = <<>>
    /\ Keys(restored[2]) = <<K_NAV_ITEMS, K_SITE, K_PAGE_SIZE>>
    /\ Get(restored[2], K_PAGE_SIZE) = Num(8)

(* C10: every entry of NAV_ITEMS has a title made only of lowercase        *)
(* characters.                                                             *)
C10_NavTitlesLowercase ==
    \A i \in 1..Len(navItems.v) :
        /\ IsString(Get(NavEntryAt(i), K_title))
        /\ \A j \in 1..Len(Get(NavEntryAt(i), K_title).v) :
               Get(NavEntryAt(i), K_title).v[j] \in LowerLetters

\* the rendered menu shows only lowercase labels
C10_Witness ==
    /\ MenuDone
    /\ menu # <<>>
    /\ \A i \in 1..Len(menu) :
           \A j \in 1..Len(menu[i].label) : menu[i].label[j] \in LowerLetters

(* C11: the module holds no shared mutable resource: whatever the number   *)
(* of consumers and the interleaving of their reads, every read of an      *)
(* export observes the same value, so no two consumers ever disagree about *)
(* the configuration.                                                      *)
C11_ReadersAgree ==
    /\ \A c1, c2 \in 1..NumConsumers : \A e \in 1..3 :
           (views[c1][e] # <<>> /\ views[c2][e] # <<>>)
               => views[c1][e] = views[c2][e]
    /\ \A c \in 1..NumConsumers : \A e \in 1..3 :
           views[c][e] # <<>>
               => views[c][e][1] = <<NAV_ITEMS, SITE, Num(PAGE_SIZE)>>[e]

\* every consumer has read every export, with a page rendered in between
C11_Witness ==
    /\ NumConsumers >= 2
    /\ \A c \in 1..NumConsumers : \A e \in 1..3 : views[c][e] # <<>>
    /\ meta # <<>>
    /\ views[1] = views[2]


---------------------------------------------------------------------------
(* Content claims.                                                         *)

\* every front-matter block of built file f, the leading one first
BlocksOf(f) == <<built[f][1].post>> \o built[f][1].later

BuiltFiles == {f \in 1..Len(content) : built[f] # <<>>}

\* all front-matter blocks of the files built so far
BuiltBlocks == UNION {{BlocksOf(f)[b] : b \in 1..Len(BlocksOf(f))} : f \in BuiltFiles}

\* whether the first block of the file has an item line whose nearest key
\* line above it is tags
ListsATag(file) ==
    /\ file # <<>>
    /\ file[1].k = "fence"
    /\ \E close \in 2..Len(file) :
          /\ file[close].k = "fence"
          /\ \A j \in 2..(close - 1) : file[j].k # "fence"
          /\ \E i \in 2..(close - 1) :
                /\ file[i].k = "item"
                /\ \E t \in 2..(i - 1) :
                      /\ file[t].k = "key"
                      /\ file[t].name = "tags"
                      /\ \A j \in (t + 1)..(i - 1) : file[j].k # "key"

\* C12: every post of the repository declares a non-empty tag list, so the
\* build renders every one of them and the index leaves none out.
C12_EveryRepoPostTagged ==
    /\ \A f \in BuiltFiles :
          /\ built[f][1].rendered
          /\ \A b \in 1..Len(BlocksOf(f)) : Len(BlocksOf(f)[b].tags) >= 1
    /\ index # <<>> => index[1] = [f \in 1..Len(RepoContent) |-> f]

C12_Witness ==
    /\ content = RepoContent
    /\ AllBuilt
    /\ index # <<>>
    /\ Len(index[1]) = 8
    /\ built[8][1].post.tags = <<"Intro">>

\* C13: for every set of content files, a post is rendered if and only if
\* its front-matter lists at least one tag.
C13_RenderedIffTagged ==
    \A f \in BuiltFiles : built[f][1].rendered <=> ListsATag(content[f])

C13_Witness ==
    /\ Len(content) = MaxFiles
    /\ AllBuilt
    /\ \E f, g, h \in BuiltFiles :
          /\ built[f][1].rendered
          /\ ~built[g][1].rendered /\ "tags" \in built[g][1].post.fields
          /\ ~built[h][1].rendered /\ "tags" \notin built[h][1].post.fields

\* the posts the build has rendered, in file order
IsRendered(f) == built[f] # <<>> /\ built[f][1].rendered

RenderedOutput ==
    LET fs == SelectSeq([f \in 1..Len(content) |-> f], IsRendered)
    IN  [i \in 1..Len(fs) |-> built[fs[i]][1].post]

\* what building the files alone, one after the other, renders
RenderAll(files) ==
    [i \in 1..Len(files) |-> BuildResult(files[i]).post]

\* C14: leaving out a post without tags is silent: the build reports no
\* error, and the tagged posts come out exactly as they would if the
\* tagless files were not there.
C14_TaglessSkippedSilently ==
    /\ buildErrors = <<>>
    /\ AllBuilt =>
          /\ RenderedOutput = RenderAll(SelectSeq(content, ListsATag))
          /\ \A i \in 1..Len(SelectSeq(content, ListsATag)) :
                BuildResult(SelectSeq(content, ListsATag)[i]).rendered

C14_Witness ==
    /\ AllBuilt
    /\ Len(content) = MaxFiles
    /\ ~built[2][1].rendered
    /\ built[1][1].rendered /\ built[MaxFiles][1].rendered
    /\ Len(RenderedOutput) = MaxFiles - 1
    /\ buildErrors = <<>>

\* C15: the index lists draft posts if and only if SITE.listDrafts is true;
\* posts that are no drafts are listed either way; under the shipped SITE,
\* whose listDrafts is true, every draft with a tag is listed.
C15_DraftsListedIffListDrafts ==
    /\ index # <<>> =>
          \A f \in 1..Len(content) :
              (\E i \in 1..Len(index[1]) : index[1][i] = f)
                  <=> /\ ListsATag(content[f])
                      /\ built[f][1].post.draft => Get(site, K_listDrafts) = Bool(TRUE)
    /\ site = SITE =>
          /\ Get(site, K_listDrafts) = Bool(TRUE)
          /\ index # <<>> =>
                \A f \in 1..Len(content) :
                    (built[f][1].post.draft /\ ListsATag(content[f]))
                        => \E i \in 1..Len(index[1]) : index[1][i] = f

C15_Witness ==
    /\ site = SITE
    /\ index # <<>>
    /\ Len(content) = MaxFiles
    /\ built[1][1].post.draft /\ built[1][1].rendered
    /\ built[2][1].post.draft /\ ~built[2][1].rendered
    /\ index[1][1] = 1
    /\ \A i \in 1..Len(index[1]) : index[1][i] # 2

\* C16: cutting a listing of n posts into pages gives pages of at most
\* PAGE_SIZE (8) posts, all but the last of exactly 8, no empty page, and
\* the pages laid end to end are the listing, nothing lost, doubled or moved.
C16_PagesPartitionListing ==
    listing # <<>> =>
        /\ \A p \in 1..Len(pages) : Len(pages[p]) <= 8 /\ Len(pages[p]) >= 1
        /\ \A p \in 1..(Len(pages) - 1) : Len(pages[p]) = 8
        /\ Flatten(pages) = SubSeq(listing[1], 1, Paged)
        /\ PaginationDone =>
              /\ Flatten(pages) = listing[1]
              /\ Len(listing[1]) = 0 => pages = <<>>
              /\ Len(listing[1]) > 0 =>
                    Len(pages) = ((Len(listing[1]) + 7) \div 8)

C16_Witness ==
    /\ listing # <<>>
    /\ Len(listing[1]) = 17
    /\ PaginationDone
    /\ Len(pages) = 3
    /\ Len(pages[1]) = 8 /\ Len(pages[2]) = 8 /\ Len(pages[3]) = 1

RequiredFields == {"title", "description", "tags", "author", "authorTwitter", "date"}

\* C17: every post's front-matter carries all six fields title,
\* description, tags, author, authorTwitter and date.
C17_SixFieldsPresent ==
    \A f \in BuiltFiles : \A b \in 1..Len(BlocksOf(f)) :
        RequiredFields \subseteq BlocksOf(f)[b].fields

C17_Witness ==
    /\ content = RepoContent
    /\ AllBuilt
    /\ Cardinality(BuiltBlocks) >= 8
    /\ built[8][1].post.authorTwitter = "afewell"
    /\ RequiredFields \subseteq built[8][1].post.fields

\* the number a run of digits d[lo..hi] writes
DigitsValue(d, lo, hi) ==
    LET RECURSIVE val(_)
        val(i) == IF i < lo THEN 0 ELSE 10 * val(i - 1) + DigitVal(d[i])
    IN  val(hi)

IsLeapYear(y) == (y % 4 = 0 /\ y % 100 # 0) \/ y % 400 = 0

DaysInMonth(y, m) ==
    IF m = 2 THEN (IF IsLeapYear(y) THEN 29 ELSE 28)
    ELSE IF m \in {4, 6, 9, 11} THEN 30 ELSE 31

\* YYYY-MM-DDTHH:MM:SS.sssZ naming a day of the calendar and a time of day
WellFormedTimestamp(d) ==
    /\ Len(d) = 24
    /\ \A i \in {1, 2, 3, 4, 6, 7, 9, 10, 12, 13, 15, 16, 18, 19, 21, 22, 23} :
          IsDigit(d[i])
    /\ d[5] = "-" /\ d[8] = "-" /\ d[11] = "T"
    /\ d[14] = ":" /\ d[17] = ":" /\ d[20] = "." /\ d[24] = "Z"
    /\ DigitsValue(d, 6, 7) \in 1..12
    /\ DigitsValue(d, 9, 10) \in
          1..DaysInMonth(DigitsValue(d, 1, 4), DigitsValue(d, 6, 7))
    /\ DigitsValue(d, 12, 13) <= 23
    /\ DigitsValue(d, 15, 16) <= 59
    /\ DigitsValue(d, 18, 19) <= 59

\* C18: every front-matter date is an ISO-8601 UTC timestamp of the form
\* YYYY-MM-DDTHH:MM:SS.sssZ that names a valid calendar date.
C18_DatesWellFormed ==
    \A f \in BuiltFiles : \A b \in 1..Len(BlocksOf(f)) :
        WellFormedTimestamp(BlocksOf(f)[b].date)

\* C19: every content file holds exactly one front-matter block, at its
\* start; none holds a second one further down.
C19_OneFrontMatterPerFile ==
    \A f \in BuiltFiles :
        /\ HasFrontMatter(content[f])
        /\ built[f][1].later = <<>>

\* C20: within one post no tag is listed twice.
C20_TagsDistinct ==
    \A f \in BuiltFiles : \A b \in 1..Len(BlocksOf(f)) :
        \A i, j \in 1..Len(BlocksOf(f)[b].tags) :
            BlocksOf(f)[b].tags[i] = BlocksOf(f)[b].tags[j] => i = j

C20_Witness ==
    /\ content = RepoContent
    /\ AllBuilt
    /\ \E f \in BuiltFiles : Len(built[f][1].post.tags) >= 10
    /\ built[8][1].post.tags = <<"Intro">>
    /\ Cardinality({Len(b.tags) : b \in BuiltBlocks}) >= 3


---------------------------------------------------------------------------
(* Routes.                                                                 *)

\* the path of the i-th entry of NAV_ITEMS
PathAt(i) == Get(NavEntryAt(i), K_path).v

\* C21: the paths of the NAV_ITEMS entries are pairwise distinct, so every
\* menu link leads to a different page.
C21_NavPathsDistinct ==
    /\ \A i, j \in 1..Len(navItems.v) : PathAt(i) = PathAt(j) => i = j
    /\ \A i, j \in 1..Len(menu) : menu[i].target = menu[j].target => i = j

\* the whole menu is rendered and its four targets are four routes
C21_Witness ==
    /\ MenuDone
    /\ Len(menu) = 4
    /\ Cardinality({menu[i].target : i \in 1..Len(menu)}) = 4

\* C22: for every entry of NAV_ITEMS the title equals the key, and the path
\* is '/' for home and '/' followed by the key for blog, tags and about.
C22_TitleIsKeyPathFromKey ==
    \A i \in 1..Len(navItems.v) :
        /\ Get(NavEntryAt(i), K_title) = Str(navItems.v[i].k)
        /\ Get(NavEntryAt(i), K_path) =
              Str(IF navItems.v[i].k = K_home THEN <<"/">>
                  ELSE <<"/">> \o navItems.v[i].k)

\* the about link is rendered: labelled with its key, aimed at '/' + key
C22_Witness ==
    /\ MenuDone
    /\ Len(menu) = 4
    /\ menu[1].label = K_home /\ menu[1].target = <<"/">>
    /\ menu[4].label = K_about /\ menu[4].target = <<"/">> \o K_about

\* where the host of an absolute URL begins: after the first "://"
HostStart(s) ==
    3 + CHOOSE k \in 1..Len(s) :
            /\ StartsAt(s, k, <<":", "/", "/">>)
            /\ \A m \in 1..(k - 1) : ~StartsAt(s, m, <<":", "/", "/">>)

\* the positions of the slashes of s from the host on
SlashesAfterHostStart(s) == {j \in HostStart(s)..Len(s) : s[j] = "/"}

\* SITE.url + path for the i-th entry of NAV_ITEMS
UrlOf(i) == Get(site, K_url).v \o PathAt(i)

\* C23: SITE.url does not end with '/', so for every entry of NAV_ITEMS
\* SITE.url + path is a valid absolute URL with exactly one '/' between the
\* host and the first path segment: none missing, none doubled.
C23_UrlPlusPathWellFormed ==
    /\ Get(site, K_url).v[Len(Get(site, K_url).v)] # "/"
    /\ \A i \in 1..Len(navItems.v) :
          /\ IsAbsoluteUrl(UrlOf(i))
          /\ SlashesAfterHostStart(UrlOf(i)) # {}
          /\ \A j \in SlashesAfterHostStart(UrlOf(i)) :
                (j + 1) \notin SlashesAfterHostStart(UrlOf(i))
          /\ \A j \in HostStart(UrlOf(i))..Len(Get(site, K_url).v) :
                UrlOf(i)[j] # "/"
          /\ UrlOf(i)[Len(Get(site, K_url).v) + 1] = "/"
    /\ meta # <<>> => meta[1].canonical = UrlOf(meta[1].page)

\* the canonical link of the blog page is https://artfewell.com/blog
C23_Witness ==
    /\ meta # <<>>
    /\ meta[1].page = 2
    /\ meta[1].canonical = SiteUrl \o <<"/">> \o K_blog
    /\ Cardinality(SlashesAfterHostStart(meta[1].canonical)) = 1


---------------------------------------------------------------------------
(* minikubestart.sh claims.                                                *)

SvcFinished == svc.pc = "done"

SvcExecuting == svc.pc \in {"boot", "check", "report", "while", "attempt"}

\* C24: the start loop runs only while minikube is not running: if the
\* apiserver is running when the service starts, `minikube start` is never
\* executed and the script does not enter the loop.
C24_NoStartWhenRunningAtBoot ==
    svc.bootApi => (svc.starts = 0 /\ svc.pc # "attempt")

C26_RetriesUntilRunningThenStops ==
    /\ [](SvcFinished => svc.api)
    /\ [](svc.pc = "attempt" => svc.minikube_running = "")
    /\ (<>(svc.api)) => <>SvcFinished


---------------------------------------------------------------------------
(* openaicall.py claims.                                                   *)

\* openai_responses.json exists and json.load reads it
FileReadable == oai.file # <<>> /\ JsonLoad(oai.file[1]).ok

\* the last call returned a response (not None)
ReturnedResponse == oai.last # <<>> /\ oai.last[1] \in Responses

C28_NoExceptionEscapes ==
    /\ ~oai.escaped
    /\ oai.calls > 0 => oai.last # <<>>
    /\ (oai.apiFailed \/ oai.saveFault # "none") => oai.last = <<"None">>
    /\ ReturnedResponse =>
          /\ ~oai.apiFailed
          /\ oai.saveFault = "none"
          /\ FileReadable
          /\ JsonLoad(oai.file[1]).v[Len(JsonLoad(oai.file[1]).v)] = oai.last[1]

\* after a response was saved, a save failed while writing: the call
\* returned None and the loop went on to a further call, which failed to
\* read the file back and returned None as well
C28_Witness ==
    /\ oai.calls = 3
    /\ oai.returned # <<>>
    /\ oai.errors = 2
    /\ oai.saveFault = "parse"
    /\ oai.last = <<"None">>
    /\ ~oai.escaped


---------------------------------------------------------------------------
(* Install script claim.                                                   *)

\* C29: the refactored install script does what the original does: for
\* every input (-u given or not, every way of answering the prompts) both
\* execute the same install actions, for the same answers, in the same order.
C29_RefactoredDoesTheSame ==
    inst.pc = "done" => inst.refactored = inst.original

====
